---- MODULE Spec2Model ----
(***************************************************************************)
(* A model of src/connectors.py: the Connector class, which writes a       *)
(* pandas DataFrame to a SQL table in chunks (set_df), reads it back       *)
(* (get_df) and runs queries on a lazily created SQLAlchemy engine.        *)
(*                                                                         *)
(* The object is single-threaded, so every method call is one action.     *)
(* The backend holds one named table.  A DataFrame is a record             *)
(*   [ncols, index, data]: the column count, the row labels and the rows   *)
(* (each row the sequence of its cells).  An optional value (Python's     *)
(* None) is the empty sequence, a present value x is <<x>>.                *)
(***************************************************************************)
EXTENDS Integers, Sequences, FiniteSets, TLC

VARIABLES
    engine,     \* self.engine: NoEngine while the attribute is not set, else the engine's id
    lazyInits,  \* how many times a method created the engine because it was absent
    table,      \* the backend table: None (absent) or <<[ncols, rows]>>
    openConns,  \* connections acquired by query() and never closed
    call,       \* the last method call: its name and its arguments
    writes,     \* the __write_df calls the last call made, in order: [if_exists, df, exc]
    exc,        \* the exception the last call raised (NoExc: it returned)
    ret         \* the value the last call returned

vars == <<engine, lazyInits, table, openConns, call, writes, exc, ret>>

----------------------------------------------------------------------------
(* Bounds of the model.                                                    *)

MaxRows == 2
MaxCols == 2
MaxChunk == 3
MaxFailAt == 1
MaxReadChunk == 1
MaxTake == 1
MaxTableRows == 2
MaxEngines == 2
MaxLeaks == 1

(* The default chunksize of set_df and of get_df: 10**6.                    *)
DefaultChunksize == 1000000

----------------------------------------------------------------------------
(* Optional values.                                                        *)

None == <<>>
Some(x) == <<x>>

NoEngine == 0
NoExc == "none"

Min(a, b) == IF a <= b THEN a ELSE b

\* int(math.ceil(a / b)) for a >= 0, b >= 1
CeilDiv(a, b) == (a + b - 1) \div b

RECURSIVE Flatten(_)
Flatten(ss) == IF ss = <<>> THEN <<>> ELSE Head(ss) \o Flatten(Tail(ss))

----------------------------------------------------------------------------
(* DataFrames.                                                             *)

\* A frame of r rows and c columns with the default RangeIndex 0..r-1 and
\* pairwise different cells, numbered from b.
DataFrame(r, c, b) ==
    [ncols |-> c,
     index |-> [i \in 1..r |-> i - 1],
     data  |-> [i \in 1..r |-> [j \in 1..c |-> b + (i - 1) * c + j]]]

\* df.size: the number of cells
Size(df) == Len(df.data) * df.ncols

\* df[a:b]: the rows a..b-1 (0-based), labels kept
Slice(df, a, b) ==
    [ncols |-> df.ncols,
     index |-> SubSeq(df.index, a + 1, b),
     data  |-> SubSeq(df.data, a + 1, b)]

\* np.array_split(df, n): n sections along the rows; the first (rows % n)
\* sections hold rows \div n + 1 rows, the others rows \div n.
DivPoint(rows, n, k) ==
    LET each == rows \div n
        extras == rows % n
    IN IF k <= extras THEN k * (each + 1)
       ELSE extras * (each + 1) + (k - extras) * each

\* A faulty variant: n sections of rows \div n rows each: the remainder is dropped
array_split_even(df, n) ==
    [k \in 1..n |-> Slice(df, (k - 1) * (Len(df.data) \div n),
                              k * (Len(df.data) \div n))]

array_split(df, n) ==
    [k \in 1..n |-> Slice(df, DivPoint(Len(df.data), n, k - 1),
                              DivPoint(Len(df.data), n, k))]

\* pd.concat(dfs, axis = 0) of a non-empty sequence of frames
concat(dfs) ==
    [ncols |-> dfs[1].ncols,
     index |-> Flatten([k \in 1..Len(dfs) |-> dfs[k].index]),
     data  |-> Flatten([k \in 1..Len(dfs) |-> dfs[k].data])]

----------------------------------------------------------------------------
(* The backend, as pandas drives it.                                       *)

\* DataFrame.to_sql's index parameter, which __write_df leaves at its default:
\* the row label is written as a column of its own, before the cells.
to_sql_index == TRUE

StoredRows(df) ==
    [i \in 1..Len(df.data) |->
        IF to_sql_index THEN <<df.index[i]>> \o df.data[i] ELSE df.data[i]]

StoredCols(df) == df.ncols + (IF to_sql_index THEN 1 ELSE 0)

\* df.to_sql(table_name, con = engine, if_exists = ...) on a backend whose
\* table is tbl: the table after the call and the exception it raised.  One
\* call is one transaction: a call that raises changes nothing.
to_sql(tbl, df, if_exists, backendFails) ==
    LET new == [ncols |-> StoredCols(df), rows |-> StoredRows(df)]
    IN IF backendFails THEN [tbl |-> tbl, exc |-> "BackendError"]
       ELSE IF tbl = None \/ if_exists = "replace"
            THEN [tbl |-> Some(new), exc |-> NoExc]
       ELSE IF if_exists = "fail"
            THEN [tbl |-> tbl, exc |-> "ValueError"]
       ELSE IF tbl[1].ncols # new.ncols
            THEN [tbl |-> tbl, exc |-> "BackendError"]
       ELSE [tbl |-> Some([ncols |-> new.ncols, rows |-> tbl[1].rows \o new.rows]),
             exc |-> NoExc]

\* pd.read_sql_table(table_name, engine, chunksize = n) on an existing table:
\* the chunks the generator yields, n rows each, each with a RangeIndex of its
\* own.  Of a table without rows the generator yields nothing or one empty
\* frame, depending on the pandas release (emptyYields).
ReadChunk(t, n, k) ==
    LET lo == (k - 1) * n
        hi == Min(k * n, Len(t.rows))
    IN [ncols |-> t.ncols,
        index |-> [i \in 1..(hi - lo) |-> i - 1],
        data  |-> SubSeq(t.rows, lo + 1, hi)]

read_sql_table(t, n, emptyYields) ==
    IF Len(t.rows) = 0
    THEN IF emptyYields THEN <<[ncols |-> t.ncols, index |-> <<>>, data |-> <<>>]>>
         ELSE <<>>
    ELSE [k \in 1..CeilDiv(Len(t.rows), n) |-> ReadChunk(t, n, k)]

\* itertools.islice(it, stop): the first stop items, all of them for None
islice(it, stop) ==
    IF stop = None THEN it ELSE SubSeq(it, 1, Min(stop[1], Len(it)))

----------------------------------------------------------------------------
(* The methods of Connector, as functions of the state they start in.     *)

\* A faulty variant: the engine is created anew without the hasattr check
ensure_engine_always(eng) == eng + 1

\* the hasattr(self, 'engine') check followed by self._init_engine()
ensure_engine(eng) == IF eng = NoEngine THEN eng + 1 ELSE eng

\* _init_engine: self.engine = create_engine(...), a new engine each time
init_engine(eng) == eng + 1

\* df.to_sql(table_name, con = self.engine, ...) as __write_df evaluates it:
\* self.engine is read before to_sql is entered, and raises when the
\* attribute is missing.
engine_to_sql(tbl, eng, df, if_exists, backendFails) ==
    IF eng = NoEngine THEN [tbl |-> tbl, exc |-> "AttributeError"]
    ELSE to_sql(tbl, df, if_exists, backendFails)

\* A faulty variant: every chunk is attempted and the first error is raised at the end
write_df_keep_going(rs, eng, df, if_exists, failAt) ==
    LET r == engine_to_sql(rs.tbl, eng, df, if_exists, failAt = Some(Len(rs.writes)))
    IN [tbl |-> r.tbl,
        writes |-> Append(rs.writes,
            [if_exists |-> if_exists, df |-> df, exc |-> r.exc]),
        exc |-> IF rs.exc # NoExc THEN rs.exc ELSE r.exc]

\* __write_df on the run so far, rs = [tbl, writes, exc].  Once a call has
\* raised, nothing after it runs.
write_df(rs, eng, df, if_exists, failAt) ==
    IF rs.exc # NoExc THEN rs
    ELSE LET r == engine_to_sql(rs.tbl, eng, df, if_exists, failAt = Some(Len(rs.writes)))
         IN [tbl |-> r.tbl,
             writes |-> Append(rs.writes,
                 [if_exists |-> if_exists, df |-> df, exc |-> r.exc]),
             exc |-> r.exc]

\* the loop of __write_split_df over dfs[1:]
RECURSIVE write_rest(_, _, _, _)
write_rest(rs, eng, dfs, failAt) ==
    IF dfs = <<>> THEN rs
    ELSE write_rest(write_df(rs, eng, Head(dfs), "append", failAt),
                    eng, Tail(dfs), failAt)

\* __write_split_df: dfs[0] with the caller's if_exists, dfs[1:] with append
write_split_df(rs, eng, dfs, if_exists, failAt) ==
    write_rest(write_df(rs, eng, dfs[1], if_exists, failAt), eng, Tail(dfs), failAt)

\* A faulty variant: the chunk count rounded down
chunk_count_floor(df, chunksize) == Size(df) \div chunksize

\* __split_df
chunk_count(df, chunksize) == CeilDiv(Size(df), chunksize)

\* A faulty variant: chunksize read as a number of rows
split_df_by_rows(df, chunksize) == array_split(df, CeilDiv(Len(df.data), chunksize))

split_df(df, chunksize) == array_split(df, chunk_count(df, chunksize))

\* the test of set_df that chooses the split path
needs_split(df, chunksize) == chunksize # None /\ Size(df) > chunksize[1]

\* A faulty variant: the unsplit path honours the caller's mode
unsplit_mode_as_given(if_exists) == if_exists

\* the mode set_df writes an unsplit frame with
unsplit_mode(if_exists) == "replace"

set_df(tbl, eng, df, if_exists, chunksize, failAt) ==
    LET rs == [tbl |-> tbl, writes |-> <<>>, exc |-> NoExc]
    IN IF needs_split(df, chunksize)
       THEN write_split_df(rs, eng, split_df(df, chunksize[1]), if_exists, failAt)
       ELSE write_df(rs, eng, df, unsplit_mode(if_exists), failAt)

\* A faulty variant: the ValueError of pd.concat is not caught
get_df_uncaught(tbl, eng, stop, readChunk, emptyYields) ==
    IF eng = NoEngine THEN [ret |-> None, exc |-> "AttributeError"]
    ELSE IF tbl = None THEN [ret |-> None, exc |-> "ValueError"]
    ELSE LET taken == islice(read_sql_table(tbl[1], readChunk, emptyYields), stop)
         IN IF taken = <<>> THEN [ret |-> None, exc |-> "ValueError"]
            ELSE [ret |-> Some(concat(taken)), exc |-> NoExc]

\* get_df: [ret, exc].  read_sql_table is called outside the try: a missing
\* engine or a missing table raises.  pd.concat of no frames raises the
\* ValueError that get_df turns into None.
get_df(tbl, eng, stop, readChunk, emptyYields) ==
    IF eng = NoEngine THEN [ret |-> None, exc |-> "AttributeError"]
    ELSE IF tbl = None THEN [ret |-> None, exc |-> "ValueError"]
    ELSE LET taken == islice(read_sql_table(tbl[1], readChunk, emptyYields), stop)
         IN IF taken = <<>> THEN [ret |-> None, exc |-> NoExc]
            ELSE [ret |-> Some(concat(taken)), exc |-> NoExc]

\* query: the connections left open when the call ends.  connection.close()
\* is reached only when connection.execute returned.
conns_after_query(open, raises) == IF raises THEN open + 1 ELSE open

----------------------------------------------------------------------------
(* The inputs of the calls.                                                *)

Frames == {DataFrame(r, c, 0) : r \in 0..MaxRows, c \in 1..MaxCols}

Modes == {"replace", "append", "fail"}

Chunksizes == {None} \cup {Some(n) : n \in 1..MaxChunk}

ReadChunksizes == {DefaultChunksize} \cup 1..MaxReadChunk

Stops == {None} \cup {Some(n) : n \in 0..MaxTake}

\* the backend rejects the k-th to_sql of the call (0-based), or none
FailAts == {None} \cup {Some(k) : k \in 0..MaxFailAt}

Queries == {"SELECT", "DROP"}

NoCall ==
    [op |-> "__init__", df |-> DataFrame(0, 1, 0), if_exists |-> "replace",
     chunksize |-> None, failAt |-> None, stop |-> None,
     readChunk |-> DefaultChunksize, emptyYields |-> FALSE, raises |-> FALSE,
     query |-> "SELECT", logging |-> FALSE, fast |-> TRUE]

Started(op) == [NoCall EXCEPT !.op = op]

\* a table some other client left in the database
ForeignTable == Some([ncols |-> 2, rows |-> <<<<0, 200>>>>])

----------------------------------------------------------------------------
(* The state after __init__: no engine attribute, nothing called yet.  The *)
(* backend is an external database: its table may or may not exist.       *)

Init ==
    /\ engine = NoEngine
    /\ lazyInits = 0
    /\ table \in {None, ForeignTable}
    /\ openConns = 0
    /\ call = NoCall
    /\ writes = <<>>
    /\ exc = NoExc
    /\ ret = None

\* _init_engine(SET_FAST_EXECUTEMANY_SWITCH): a new engine replaces the old one
InitEngine ==
    \E fast \in BOOLEAN :
        /\ engine < MaxEngines
        /\ engine' = init_engine(engine)
        /\ call' = [Started("_init_engine") EXCEPT !.fast = fast]
        /\ writes' = <<>>
        /\ exc' = NoExc
        /\ ret' = None
        /\ UNCHANGED <<lazyInits, table, openConns>>

\* set_df(table_name, df, if_exists, chunksize)
SetDf ==
    \E df \in Frames, m \in Modes, cs \in Chunksizes, fa \in FailAts :
        \E rs \in {set_df(table, engine, df, m, cs, fa)} :
           /\ rs.tbl # None => Len(rs.tbl[1].rows) <= MaxTableRows
           /\ fa # None => (/\ fa[1] < Len(rs.writes)
                            /\ rs.writes[fa[1] + 1].exc = "BackendError")
           /\ table' = rs.tbl
           /\ writes' = rs.writes
           /\ exc' = rs.exc
           /\ ret' = IF rs.exc = NoExc THEN Some(TRUE) ELSE None
           /\ call' = [Started("set_df") EXCEPT !.df = df, !.if_exists = m,
                          !.chunksize = cs, !.failAt = fa]
           /\ UNCHANGED <<engine, lazyInits, openConns>>

\* get_df(table_name, chunk_count, chunksize = ...)
GetDf ==
    \E stop \in Stops, rc \in ReadChunksizes, ey \in BOOLEAN :
        \E r \in {get_df(table, engine, stop, rc, ey)} :
           /\ ey => (engine # NoEngine /\ table # None /\ Len(table[1].rows) = 0)
           /\ ret' = r.ret
           /\ exc' = r.exc
           /\ writes' = <<>>
           /\ call' = [Started("get_df") EXCEPT !.stop = stop, !.readChunk = rc,
                          !.emptyYields = ey]
           /\ UNCHANGED <<engine, lazyInits, table, openConns>>

\* get_table_names(): the catalog of base tables, read through the engine
GetTableNames ==
    \E raises \in BOOLEAN :
        /\ engine' = ensure_engine(engine)
        /\ lazyInits' = lazyInits + (IF engine' # engine THEN 1 ELSE 0)
        /\ exc' = IF raises THEN "BackendError" ELSE NoExc
        /\ ret' = IF raises THEN None ELSE Some(IF table = None THEN 0 ELSE 1)
        /\ writes' = <<>>
        /\ call' = [Started("get_table_names") EXCEPT !.raises = raises]
        /\ UNCHANGED <<table, openConns>>

\* query(_query, logging): connect, execute, close, return the result handle
Query ==
    \E q \in Queries, raises \in BOOLEAN, logging \in BOOLEAN :
        /\ conns_after_query(openConns, raises) <= MaxLeaks
        /\ engine' = ensure_engine(engine)
        /\ lazyInits' = lazyInits + (IF engine' # engine THEN 1 ELSE 0)
        /\ openConns' = conns_after_query(openConns, raises)
        /\ table' = IF q = "DROP" /\ ~raises THEN None ELSE table
        /\ exc' = IF raises THEN "BackendError" ELSE NoExc
        /\ ret' = IF raises THEN None ELSE Some(q)
        /\ writes' = <<>>
        /\ call' = [Started("query") EXCEPT !.raises = raises, !.query = q,
                    !.logging = logging]

\* df_query(_query): a SELECT of the whole table, read into one frame
DfQuery ==
    /\ engine' = ensure_engine(engine)
    /\ lazyInits' = lazyInits + (IF engine' # engine THEN 1 ELSE 0)
    /\ exc' = IF table = None THEN "BackendError" ELSE NoExc
    /\ ret' = IF table = None THEN None
              ELSE Some([ncols |-> table[1].ncols,
                         index |-> [i \in 1..Len(table[1].rows) |-> i - 1],
                         data  |-> table[1].rows])
    /\ writes' = <<>>
    /\ call' = Started("df_query")
    /\ UNCHANGED <<table, openConns>>

Next ==
    \/ InitEngine
    \/ SetDf
    \/ GetDf
    \/ GetTableNames
    \/ Query
    \/ DfQuery

Spec == Init /\ [][Next]_vars

\* A client that moves tables: it follows the class's documented usage, one
\* _init_engine() and then set_df and get_df, or forgets the _init_engine().
TransferNext ==
    \/ (engine = NoEngine /\ InitEngine)
    \/ SetDf
    \/ GetDf

TransferSpec == Init /\ [][TransferNext]_vars

\* A client that only queries: _init_engine, get_table_names, query, df_query.
QueryNext ==
    \/ InitEngine
    \/ GetTableNames
    \/ Query
    \/ DfQuery

QuerySpec == Init /\ [][QueryNext]_vars

----------------------------------------------------------------------------
(* The claims.                                                             *)

\* rows * columns of a frame, as the claims count cells
CellCount(df) == Len(df.data) * df.ncols

\* the least k with k * d >= a: ceil(a / d)
Ceil(a, d) == CHOOSE k \in 0..a : k * d >= a /\ (k - 1) * d < a

LastIsSetDf == call.op = "set_df"

OnSplitPath ==
    /\ LastIsSetDf
    /\ call.chunksize # None
    /\ CellCount(call.df) > call.chunksize[1]

OnUnsplitPath ==
    /\ LastIsSetDf
    /\ (call.chunksize = None \/ CellCount(call.df) <= call.chunksize[1])

\* the rows of the frames handed to __write_df, in the order of the calls
WrittenRows == Flatten([i \in 1..Len(writes) |-> writes[i].df.data])

IsPrefix(s, t) == Len(s) <= Len(t) /\ s = SubSeq(t, 1, Len(s))

\* C1: on the split path (cells > chunksize >= 1) a set_df that returns has
\* made exactly ceil(cells / chunksize) write calls, and never more than that
\* when a write raised; the first call carries the caller's if_exists
\* (replace, append or fail) and every later call carries append.
C1_SplitWriteCountAndModes ==
    OnSplitPath =>
        /\ Len(writes) <= Ceil(CellCount(call.df), call.chunksize[1])
        /\ exc = NoExc => Len(writes) = Ceil(CellCount(call.df), call.chunksize[1])
        /\ \A i \in 1..Len(writes) :
              writes[i].if_exists = (IF i = 1 THEN call.if_exists ELSE "append")

C1_Witness ==
    /\ OnSplitPath
    /\ exc = NoExc
    /\ call.if_exists = "fail"
    /\ Len(writes) >= 2
    /\ CellCount(call.df) % call.chunksize[1] # 0

\* C2: on the unsplit path (chunksize None, or cells <= chunksize) set_df
\* makes exactly one write call, with the whole frame, and with if_exists =
\* replace whatever mode the caller gave.
C2_UnsplitSingleReplace ==
    OnUnsplitPath =>
        /\ Len(writes) = 1
        /\ writes[1].df = call.df
        /\ writes[1].if_exists = "replace"

C2_Witness ==
    /\ OnUnsplitPath
    /\ call.if_exists = "fail"
    /\ call.chunksize # None
    /\ Len(call.df.data) >= 1
    /\ exc = NoExc

\* C3: on the split path the frames written are contiguous row ranges of T in
\* order: the rows of the writes issued so far, concatenated in call order, are
\* a prefix of T's rows, and all of T's rows once set_df has returned.
C3_ChunksConcatenateToT ==
    OnSplitPath =>
        /\ IsPrefix(WrittenRows, call.df.data)
        /\ exc = NoExc => WrittenRows = call.df.data

C3_Witness ==
    /\ OnSplitPath
    /\ exc = NoExc
    /\ Len(call.df.data) >= 2
    /\ \E i \in 1..Len(writes) : \E j \in 1..Len(writes) :
          i < j /\ Len(writes[i].df.data) >= 1 /\ Len(writes[j].df.data) >= 1

\* C4: after a set_df(name, T, if_exists = "replace") that returned, the next
\* call get_df(name, chunk_count = None) returns a frame with T's column
\* count and T's rows in T's order.
C4_RoundTrip ==
    [][(/\ call.op = "set_df"
        /\ call.if_exists = "replace"
        /\ exc = NoExc
        /\ call'.op = "get_df"
        /\ call'.stop = None)
       => (/\ exc' = NoExc
           /\ ret' # None
           /\ ret'[1].ncols = call.df.ncols
           /\ ret'[1].data = call.df.data)]_vars

EngineMethods == {"set_df", "get_df", "get_table_names", "query", "df_query"}

\* C5: a method that needs the engine, called first on a fresh object (no
\* engine attribute), creates the engine and does not fail for the lack of it.
C5_LazyInitInEveryMethod ==
    [][(/\ call.op = "__init__"
        /\ engine = NoEngine
        /\ call'.op \in EngineMethods)
       => (engine' # NoEngine /\ exc' # "AttributeError")]_vars

\* C6: query releases the connection it acquired on every exit path: no call
\* of query, returning or raising, leaves one more connection open.
C6_QueryReleasesConnection ==
    [][call'.op = "query" => openConns' = openConns]_vars

\* the rows to_sql stores for the first k writes of the last call
Committed(k) ==
    Flatten([i \in 1..k |-> StoredRows(writes'[i].df)])

\* C7: when a write of a split set_df fails, the failed write is the last one
\* issued (no chunk after it is attempted), every write before it succeeded,
\* the call raises the error of the failed write as it is, and the table holds
\* what it held before the first write (nothing, for a replace or a new table)
\* followed by the rows of the chunks before the failed one.
C7_NoRollback ==
    [][(/\ call'.op = "set_df"
        /\ call'.chunksize # None
        /\ CellCount(call'.df) > call'.chunksize[1]
        /\ exc' # NoExc)
       => LET k == Len(writes')
          IN /\ k >= 1
             /\ writes'[k].exc = exc'
             /\ \A i \in 1..(k - 1) : writes'[i].exc = NoExc
             /\ k = 1 => table' = table
             /\ k > 1 =>
                   /\ table' # None
                   /\ table'[1].rows =
                        (IF table = None \/ call'.if_exists = "replace"
                         THEN <<>> ELSE table[1].rows) \o Committed(k - 1)]_vars

C7_Witness ==
    /\ OnSplitPath
    /\ exc = "BackendError"
    /\ call.if_exists = "append"
    /\ Len(writes) = 2
    /\ Ceil(CellCount(call.df), call.chunksize[1]) > 2
    /\ table # None
    /\ Len(table[1].rows) = 2

\* C8: get_df on an existing table returns None, and raises nothing, when it
\* takes no chunk (the cursor yields none, or chunk_count is 0); when it takes
\* at least one it returns the rows of the first min(chunk_count, available)
\* chunks in order (all chunks for chunk_count None), never None.
C8_GetDfNoneOrConcat ==
    (call.op = "get_df" /\ engine # NoEngine /\ table # None) =>
        LET rows == table[1].rows
            avail == IF Len(rows) = 0 THEN (IF call.emptyYields THEN 1 ELSE 0)
                     ELSE Ceil(Len(rows), call.readChunk)
            taken == IF call.stop = None THEN avail ELSE Min(call.stop[1], avail)
        IN /\ exc = NoExc
           /\ taken = 0 => ret = None
           /\ taken > 0 =>
                 /\ ret # None
                 /\ ret[1].ncols = table[1].ncols
                 /\ ret[1].data = SubSeq(rows, 1, Min(taken * call.readChunk, Len(rows)))

C8_Witness ==
    /\ call.op = "get_df"
    /\ call.stop = None
    /\ exc = NoExc
    /\ ret = None

C8_WitnessTaken ==
    /\ call.op = "get_df"
    /\ call.stop # None
    /\ ret # None
    /\ Len(ret[1].data) < Len(table[1].rows)

LazyMethods == {"get_table_names", "query", "df_query"}

\* C9: over _init_engine, get_table_names, query and df_query calls the engine
\* is created by lazy initialisation at most once, and only by a call that
\* finds it absent; a call that finds an engine keeps it; only _init_engine
\* replaces an engine, and it always does.
C9_EngineReuse ==
    [][/\ lazyInits' <= 1
       /\ lazyInits' # lazyInits =>
             (engine = NoEngine /\ engine' # NoEngine /\ call'.op \in LazyMethods)
       /\ (call'.op \in LazyMethods /\ engine # NoEngine) => engine' = engine
       /\ call'.op \in LazyMethods => engine' # NoEngine
       /\ call'.op = "_init_engine" => (engine' # engine /\ engine' # NoEngine)
       /\ engine' # engine => (call'.op = "_init_engine" \/ engine = NoEngine)]_vars

C9_Witness ==
    /\ lazyInits = 1
    /\ openConns = MaxLeaks
    /\ call.op = "df_query"
    /\ engine = 1

\* C10 (as stated): on the split path every frame written is non-empty and
\* holds at most chunksize cells.
C10_ChunkWithinChunksize ==
    OnSplitPath =>
        \A i \in 1..Len(writes) :
            /\ Len(writes[i].df.data) >= 1
            /\ CellCount(writes[i].df) <= call.chunksize[1]

\* C10 (amended): on the split path every frame written holds fewer than
\* chunksize + columns cells; it is non-empty when columns <= chunksize; and
\* it holds at most chunksize cells when chunksize is a multiple of columns.
C10_ChunkBoundAmended ==
    OnSplitPath =>
        \A i \in 1..Len(writes) :
            /\ CellCount(writes[i].df) < call.chunksize[1] + call.df.ncols
            /\ call.df.ncols <= call.chunksize[1] => Len(writes[i].df.data) >= 1
            /\ call.chunksize[1] % call.df.ncols = 0 =>
                  CellCount(writes[i].df) <= call.chunksize[1]

C10_Witness ==
    /\ OnSplitPath
    /\ exc = NoExc
    /\ \E i \in 1..Len(writes) : CellCount(writes[i].df) > call.chunksize[1]
    /\ \E i \in 1..Len(writes) : Len(writes[i].df.data) = 0

====
